---- MODULE Spec2Model ----
(***************************************************************************)
(* Model of the TikTok live analyser API routes:                           *)
(*   - startComments (src/unnamed/part_002) and getLogs: the per-account   *)
(*     chat log store and the watcher registry kept on `global`;           *)
(*   - the user-info route (src/unnamed/part_001) with its in-memory TTL   *)
(*     cache;                                                              *)
(*   - the record route (src/pages/api/record.js): the two-stage ffmpeg    *)
(*     capture pipeline.                                                   *)
(* Every handler is a sequence of atomic steps, one per stretch of code    *)
(* between two `await`s (Node runs each stretch to completion).            *)
(***************************************************************************)
EXTENDS Integers, Sequences, FiniteSets, TLC

(***************************************************************************)
(* Strings are sequences of one-character strings, so that trim, the       *)
(* /^@/ replacement and toLowerCase are computed character by character.   *)
(***************************************************************************)
\* The raw values of the `username` query parameter the requests are drawn
\* from.  A missing parameter is `undefined`, which every handler treats as
\* it treats "" (both are falsy), so "" stands for both.
Usernames ==
    { <<>>,                    \* "" or missing
      <<" ">>,                 \* " "
      <<"@">>,                 \* "@"
      <<"a">>,                 \* "a"
      <<"A">>,                 \* "A"
      <<"@", "A", " ">>,       \* "@A "
      <<" ", "@", "a">> }      \* " @a"

IsSpace(c) == c = " "

RECURSIVE TrimStart(_)
TrimStart(s) ==
    IF s = <<>> THEN <<>>
    ELSE IF IsSpace(Head(s)) THEN TrimStart(Tail(s)) ELSE s

RECURSIVE TrimEnd(_)
TrimEnd(s) ==
    IF s = <<>> THEN <<>>
    ELSE IF IsSpace(s[Len(s)]) THEN TrimEnd(SubSeq(s, 1, Len(s) - 1)) ELSE s

\* String.prototype.trim
Trim(s) == TrimEnd(TrimStart(s))

\* s.replace(/^@/, ''): removes one "@" when it is the first character
StripAt(s) == IF s # <<>> /\ Head(s) = "@" THEN Tail(s) ELSE s

LowerChar(c) == IF c = "A" THEN "a" ELSE c

\* String.prototype.toLowerCase
ToLowerCase(s) == [i \in 1..Len(s) |-> LowerChar(s[i])]

\* `!username || typeof username !== 'string' || username.trim() === ''`
InvalidUsername(username) == username = <<>> \/ Trim(username) = <<>>

\* `username.replace(/^@/, '').trim()`
NormalizeUser(username) == Trim(StripAt(username))

(***************************************************************************)
(* Bounds of the model.                                                    *)
(***************************************************************************)
\* WebcastPushConnection objects created over a run
MaxConns == 2
\* chat events delivered to listeners over a run
MaxEvents == 3
\* user-info requests awaiting the upstream fetch at a time
MaxInfoFetches == 2
\* the clock runs up to MaxSpans cache lifetimes (plus one millisecond)
MaxSpans == 1
\* record requests that reach the upstream fetch over a run
MaxCaptures == 2
\* milliseconds that pass while captures run
MaxMillis == 1
MaxStatusReqs == 2
\* the retained-entries cap of a log: the code's literal is 10000
\* (part_002 line 57); the model runs the same code with a cap this small
LogCap == 2

VARIABLES
    commentWatchers,   \* global.commentWatchers: user -> connection
    commentLogs,       \* global.commentLogs: user -> sequence of entries
    conns,             \* the WebcastPushConnection objects created so far,
                       \* each with the request awaiting its connect()
    appended,          \* history: user -> every entry ever pushed to its log
    lastRes,           \* the last response sent, with the request it answers
    cache,             \* part_001 `cache`: key -> [ts, data]
    now,               \* Date.now()
    infoReqs,          \* the user-info requests awaiting the upstream fetch
    served,            \* history: key -> the `username` fields of its 200 responses
    jobs,              \* the record requests that reached the upstream fetch
    dirs,              \* the output directories that exist
    disk,              \* the files ffmpeg has written
    statusReqs,        \* the status requests awaiting the upstream fetch
    probe              \* the input and the result of a function run on its own

logVars == <<commentWatchers, commentLogs, conns, appended>>

cacheVars == <<cache, now, infoReqs, served>>

recVars == <<jobs, dirs, disk>>

statusVars == <<statusReqs>>

vars == <<logVars, statusVars, probe, cacheVars, recVars, lastRes>>

\* `obj[key]` is truthy: the key is present (every stored value is an object
\* or an array, which are truthy)
Has(obj, key) == key \in DOMAIN obj

\* obj[key] = value on a plain object
Put(obj, key, value) ==
    [k \in DOMAIN obj \cup {key} |-> IF k = key THEN value ELSE obj[k]]

\* `a || b` on strings: "" is falsy
OrElse(a, b) == IF a # "" THEN a ELSE b

\* res.status(code).json(body), sent by `route` to the request made with
\* `username` (for the record route: the job of that request, else 0)
Respond(route, username, job, code, body) ==
    [route |-> route, username |-> username, job |-> job, status |-> code, body |-> body]

(***************************************************************************)
(* startComments, src/unnamed/part_002                                     *)
(***************************************************************************)
\* The chat events a connection can deliver: `data` of the 'chat' event.
ChatData(n) == [uniqueId : {"u"}, nickname : {"n"}, comment : {n}]

\* lines 51-55: the entry pushed for a chat event
LogEntry(data) ==
    [timestamp |-> now,
     user |-> OrElse(data.uniqueId, data.nickname),
     comment |-> data.comment]

\* a plausible slip: pop() in place of shift() discards the newest entry
EvictNewest(log) == IF Len(log) > LogCap THEN SubSeq(log, 1, Len(log) - 1) ELSE log

\* lines 57-59: `if (length > 10000) shift()`
Evict(log) == IF Len(log) > LogCap THEN Tail(log) ELSE log

\* lines 48-59: the 'chat' listener registered for `user`
ChatListener(logs, user, data) ==
    LET base == IF Has(logs, user) THEN logs[user] ELSE <<>>
    IN  Put(logs, user, Evict(Append(base, LogEntry(data))))

\* lines 17-41: from the request to the `await connection.connect()`
StartComments(username) ==
    /\ UNCHANGED <<cacheVars, recVars, statusVars, probe>>
    /\ IF InvalidUsername(username)
       THEN /\ lastRes' = Respond("startComments", username, 0, 400,
                                  [error |-> "Missing or invalid username"])
            /\ UNCHANGED <<commentWatchers, commentLogs, conns, appended>>
       ELSE LET user == NormalizeUser(username) IN
            IF Has(commentWatchers, user)
            THEN /\ lastRes' = Respond("startComments", username, 0, 200,
                                       [message |-> "Listener already running"])
                 /\ UNCHANGED <<commentWatchers, commentLogs, conns, appended>>
            ELSE /\ Len(conns) < MaxConns
                 /\ commentLogs' = Put(commentLogs, user, <<>>)
                 /\ conns' = Append(conns,
                        [user |-> user, username |-> username, state |-> "connecting",
                         listening |-> FALSE, seen |-> 0])
                 /\ UNCHANGED <<commentWatchers, appended, lastRes>>

\* lines 42-45: connect() rejected
ConnectFailed(c) ==
    /\ UNCHANGED <<cacheVars, recVars, statusVars, probe>>
    /\ conns[c].state = "connecting"
    /\ conns' = [conns EXCEPT ![c].state = "failed"]
    /\ lastRes' = Respond("startComments", conns[c].username, 0, 500,
                          [error |-> "Failed to connect"])
    /\ UNCHANGED <<commentWatchers, commentLogs, appended>>

\* the connection is never stored: a later start finds no watcher
StoreWatcherForgotten(watchers, user, c) == watchers

\* line 62: `global.commentWatchers[user] = connection`
StoreWatcher(watchers, user, c) == Put(watchers, user, c)

\* lines 46-63: connect() resolved; the listener is registered and the
\* connection stored
ConnectResolved(c) ==
    /\ UNCHANGED <<cacheVars, recVars, statusVars, probe>>
    /\ conns[c].state = "connecting"
    /\ conns' = [conns EXCEPT ![c].state = "connected", ![c].listening = TRUE]
    /\ commentWatchers' = StoreWatcher(commentWatchers, conns[c].user, c)
    /\ lastRes' = Respond("startComments", conns[c].username, 0, 200,
                          [message |-> "Comment listener started"])
    /\ UNCHANGED <<commentLogs, appended>>

RECURSIVE SumSeen(_)
SumSeen(cs) == IF cs = <<>> THEN 0 ELSE Head(cs).seen + SumSeen(Tail(cs))

\* The push connection c delivers the next chat event of its room to the
\* listener registered at lines 47-60.
ChatEvent(c, data) ==
    /\ UNCHANGED <<cacheVars, recVars, statusVars, probe>>
    /\ conns[c].listening
    /\ SumSeen(conns) < MaxEvents
    /\ data.comment = conns[c].seen + 1
    /\ commentLogs' = ChatListener(commentLogs, conns[c].user, data)
    /\ appended' = Put(appended, conns[c].user,
           Append(IF Has(appended, conns[c].user) THEN appended[conns[c].user] ELSE <<>>,
                  LogEntry(data)))
    /\ conns' = [conns EXCEPT ![c].seen = @ + 1]
    /\ UNCHANGED <<commentWatchers, lastRes>>

(***************************************************************************)
(* getLogs, src/pages/api/getLogs.js                                       *)
(***************************************************************************)
GetLogs(username) ==
    /\ UNCHANGED <<cacheVars, recVars, statusVars, probe>>
    /\ IF InvalidUsername(username)
       THEN lastRes' = Respond("getLogs", username, 0, 400,
                               [error |-> "Missing or invalid username"])
       ELSE LET user == NormalizeUser(username) IN
            lastRes' = Respond("getLogs", username, 0, 200,
                               [logs |-> IF Has(commentLogs, user)
                                         THEN commentLogs[user] ELSE <<>>])
    /\ UNCHANGED <<commentWatchers, commentLogs, conns, appended>>

(***************************************************************************)
(* The listener/log specification.                                         *)
(***************************************************************************)
\* no request has been received yet
Quiet ==
    /\ commentWatchers = <<>>
    /\ commentLogs = <<>>
    /\ conns = <<>>
    /\ appended = <<>>
    /\ lastRes = Respond("none", <<>>, 0, 0, <<>>)
    /\ cache = <<>>
    /\ now = 0
    /\ infoReqs = <<>>
    /\ served = <<>>
    /\ jobs = <<>>
    /\ dirs = {}
    /\ disk = {}
    /\ statusReqs = <<>>

Init == Quiet /\ probe = <<>>

NextLog ==
    \/ \E username \in Usernames : StartComments(username)
    \/ \E c \in 1..Len(conns) : ConnectFailed(c)
    \/ \E c \in 1..Len(conns) : ConnectResolved(c)
    \/ \E c \in 1..Len(conns), n \in 1..MaxEvents :
          \E data \in ChatData(n) : ChatEvent(c, data)
    \/ \E username \in Usernames : GetLogs(username)

SpecLog == Init /\ [][NextLog]_vars

(***************************************************************************)
(* The user-info route, src/unnamed/part_001                               *)
(***************************************************************************)
\* line 1
TTL_MS == 6 * 60 * 60 * 1000

\* JavaScript's null
Null == "null"

\* The instants the clock is observed at: around each multiple of the TTL.
TimePoints == {k * TTL_MS + d : k \in 0..MaxSpans, d \in {-1, 0, 1}} \cap Nat

\* A users table of the state document: a sequence of [key, val] in the
\* order Object.keys yields them; `some` is FALSE when the path is absent.
NoTable == [some |-> FALSE, users |-> <<>>]
Table(users) == [some |-> TRUE, users |-> users]

\* An entry of a users table; "" (<<>> for uniqueId) is an absent field.
UserEntry(uniqueId, id, idStr, region, country) ==
    [uniqueId |-> uniqueId, id |-> id, idStr |-> idStr, region |-> region, country |-> country]

\* The profile pages the upstream answers with.
InfoPages ==
    { [sigi |-> "absent", UserModule |-> NoTable, UserPage |-> NoTable],
      [sigi |-> "unparseable", UserModule |-> NoTable, UserPage |-> NoTable],
      [sigi |-> "doc", UserModule |-> NoTable, UserPage |-> NoTable],
      [sigi |-> "doc",
       UserModule |-> Table(<< [key |-> <<"a">>, val |-> UserEntry(<<"a">>, "1", "", "FR", "")] >>),
       UserPage |-> NoTable],
      [sigi |-> "doc",
       UserModule |-> NoTable,
       UserPage |-> Table(<< [key |-> <<"7">>, val |-> UserEntry(<<"A">>, "", "7", "", "US")] >>)] }

\* lines 63-66: data?.UserModule?.users || data?.UserPage?.users || null
\* (data is null when safeJsonParse fails)
MaybeUsers(html) ==
    IF html.sigi # "doc" THEN NoTable
    ELSE IF html.UserModule.some THEN html.UserModule
    ELSE IF html.UserPage.some THEN html.UserPage
    ELSE NoTable

\* maybe[k]: the position of key k in the table, 0 when it has no such key
KeyIndex(users, k) ==
    IF \E i \in 1..Len(users) : users[i].key = k
    THEN CHOOSE i \in 1..Len(users) : users[i].key = k
    ELSE 0

\* lines 76-84: the first entry, in key order, whose uniqueId matches
ScanIndex(users, username) ==
    LET match(i) == /\ users[i].val.uniqueId # <<>>
                    /\ ToLowerCase(users[i].val.uniqueId) = ToLowerCase(username)
    IN  IF \E i \in 1..Len(users) : match(i)
        THEN CHOOSE i \in 1..Len(users) : match(i) /\ \A j \in 1..(i - 1) : ~match(j)
        ELSE 0

\* a plausible slip: the scan for a matching uniqueId runs first and the
\* lookups by key only when it finds nothing
ResolveUserInfoScanFirst(html, username) ==
    LET maybe == MaybeUsers(html)
        users == maybe.users
        d1 == KeyIndex(users, username)
        d2 == KeyIndex(users, <<"@">> \o username)
        scan == ScanIndex(users, username)
        found == IF scan # 0 THEN scan ELSE IF d1 # 0 THEN d1 ELSE d2
    IN  IF html.sigi = "absent" \/ ~maybe.some \/ found = 0
        THEN [userId |-> Null, country |-> Null]
        ELSE [userId |-> OrElse(OrElse(users[found].val.id, users[found].val.idStr), Null),
              country |-> OrElse(OrElse(users[found].val.region, users[found].val.country), Null)]

\* lines 56-89: userId and country found for `username` in the page
ResolveUserInfo(html, username) ==
    LET maybe == MaybeUsers(html)
        users == maybe.users
        d1 == KeyIndex(users, username)
        d2 == KeyIndex(users, <<"@">> \o username)
        direct == IF d1 # 0 THEN d1 ELSE d2
        found == IF direct # 0 THEN direct ELSE ScanIndex(users, username)
    IN  IF html.sigi = "absent" \/ ~maybe.some \/ found = 0
        THEN [userId |-> Null, country |-> Null]
        ELSE [userId |-> OrElse(OrElse(users[found].val.id, users[found].val.idStr), Null),
              country |-> OrElse(OrElse(users[found].val.region, users[found].val.country), Null)]

\* lines 91-96
DataOut(html, username) ==
    LET info == ResolveUserInfo(html, username)
    IN  [username |-> username, userId |-> info.userId, country |-> info.country,
         source |-> "SIGI_STATE"]

\* line 30: { ...hit.data, cached: true }
WithCached(data) ==
    [username |-> data.username, userId |-> data.userId, country |-> data.country,
     source |-> data.source, cached |-> TRUE]

\* line 27
CacheKey(username) == ToLowerCase(username)

\* a plausible slip: `<=` in place of `<`
FreshInclusive(ts, t) == t - ts <= TTL_MS

\* line 29: (Date.now() - hit.ts) < TTL_MS
Fresh(ts, t) == t - ts < TTL_MS

\* the sequence without its q-th element
Without(seq, q) == SubSeq(seq, 1, q - 1) \o SubSeq(seq, q + 1, Len(seq))

\* records that a 200 response for `key` carried `username`
Serve(key, username) ==
    served' = Put(served, key, (IF Has(served, key) THEN served[key] ELSE {}) \cup {username})

\* lines 15-40: from the request to the `await fetch(url)`
UserInfo(method, query) ==
    /\ UNCHANGED <<logVars, statusVars, probe, recVars, now>>
    /\ IF method = "OPTIONS"
       THEN /\ lastRes' = Respond("userInfo", query, 0, 204, <<>>)
            /\ UNCHANGED <<cache, infoReqs, served>>
       ELSE LET usernameRaw == Trim(query)
                username == StripAt(usernameRaw)
                key == CacheKey(username)
            IN  IF username = <<>>
                THEN /\ lastRes' = Respond("userInfo", query, 0, 400, [error |-> "Missing username"])
                     /\ UNCHANGED <<cache, infoReqs, served>>
                ELSE IF Has(cache, key) /\ Fresh(cache[key].ts, now)
                THEN /\ lastRes' = Respond("userInfo", query, 0, 200, WithCached(cache[key].data))
                     /\ Serve(key, cache[key].data.username)
                     /\ UNCHANGED <<cache, infoReqs>>
                ELSE /\ Len(infoReqs) < MaxInfoFetches
                     /\ infoReqs' = Append(infoReqs, [username |-> username, key |-> key])
                     /\ UNCHANGED <<cache, lastRes, served>>

\* lines 104-106: fetch (or r.text()) rejected
InfoFetchThrows(q) ==
    /\ lastRes' = Respond("userInfo", infoReqs[q].username, 0, 500, [error |-> "Server error"])
    /\ infoReqs' = Without(infoReqs, q)
    /\ UNCHANGED <<logVars, statusVars, probe, recVars, cache, now, served>>

\* a plausible slip: the result is stored before `r.ok` is looked at, so the
\* error result is cached under the key
InfoFetchNotOkCached(q, status) ==
    /\ LET body == [username |-> infoReqs[q].username, error |-> "TikTok HTTP", code |-> status,
                    userId |-> Null, country |-> Null, source |-> "tiktok"] IN
       /\ cache' = Put(cache, infoReqs[q].key, [ts |-> now, data |-> body])
       /\ lastRes' = Respond("userInfo", infoReqs[q].username, 0, status, body)
    /\ infoReqs' = Without(infoReqs, q)
    /\ UNCHANGED <<logVars, statusVars, probe, recVars, now, served>>

\* lines 42-50: the upstream answered with a non-2xx status
InfoFetchNotOk(q, status) ==
    /\ lastRes' = Respond("userInfo", infoReqs[q].username, 0, status,
           [username |-> infoReqs[q].username, error |-> "TikTok HTTP", code |-> status,
            userId |-> Null, country |-> Null, source |-> "tiktok"])
    /\ infoReqs' = Without(infoReqs, q)
    /\ UNCHANGED <<logVars, statusVars, probe, recVars, cache, now, served>>

\* lines 52-102: the upstream answered 2xx with the page `html`
InfoFetchOk(q, html) ==
    /\ LET dataOut == DataOut(html, infoReqs[q].username) IN
       /\ cache' = Put(cache, infoReqs[q].key, [ts |-> now, data |-> dataOut])
       /\ lastRes' = Respond("userInfo", infoReqs[q].username, 0, 200, dataOut)
       /\ Serve(infoReqs[q].key, dataOut.username)
    /\ infoReqs' = Without(infoReqs, q)
    /\ UNCHANGED <<logVars, statusVars, probe, recVars, now>>

\* time passes
Tick(t) ==
    /\ t > now
    /\ now' = t
    /\ UNCHANGED <<logVars, statusVars, probe, recVars, cache, infoReqs, served, lastRes>>

NextCache ==
    \/ \E method \in {"GET", "OPTIONS"}, query \in Usernames : UserInfo(method, query)
    \/ \E q \in 1..Len(infoReqs) : InfoFetchThrows(q)
    \/ \E q \in 1..Len(infoReqs), status \in {404} : InfoFetchNotOk(q, status)
    \/ \E q \in 1..Len(infoReqs), html \in InfoPages : InfoFetchOk(q, html)
    \/ \E t \in TimePoints : Tick(t)

SpecCache == Init /\ [][NextCache]_vars

(***************************************************************************)
(* The record route, src/pages/api/record.js                               *)
(***************************************************************************)
\* The raw `username` values the record requests are drawn from.
RecordUsernames == {<<>>, <<"@">>, <<"a">>}

\* line 74: the quality tiers in the order the loop tries them
Qualities == <<"uhd", "hd", "sd", "ld">>

\* A variant of the manifest: `main` absent, or main.flv ("" when absent).
NoMain == [main |-> FALSE, flv |-> ""]
Flv(url) == [main |-> TRUE, flv |-> url]

\* JSON.parse(raw).data: undefined, or a mapping tier -> variant
NoStreams == [defined |-> FALSE, tiers |-> <<>>]
Streams(tiers) == [defined |-> TRUE, tiers |-> tiers]

\* The live pages the upstream answers with: the HTTP status, whether the
\* SIGI_STATE script is there and parses, and the stream_data inside it.
LivePage(status, sigi, raw, streams) ==
    [status |-> status, sigi |-> sigi, raw |-> raw, streams |-> streams]

RecordPages ==
    { LivePage(200, "absent", "absent", NoStreams),
      LivePage(404, "absent", "absent", NoStreams),
      LivePage(200, "unparseable", "absent", NoStreams),
      LivePage(200, "doc", "absent", NoStreams),
      LivePage(200, "doc", "unparseable", NoStreams),
      LivePage(200, "doc", "json", NoStreams),
      LivePage(200, "doc", "json", Streams(<<>>)),
      LivePage(200, "doc", "json", Streams([q \in {"uhd", "ld"} |-> IF q = "uhd" THEN NoMain ELSE Flv("")])),
      LivePage(200, "doc", "json", Streams([q \in {"uhd", "sd", "ld"} |->
                                              IF q = "uhd" THEN Flv("") ELSE IF q = "sd" THEN Flv("s") ELSE Flv("l")])) }

\* lines 73-79: the flv URL of the first tier that has one, Null when none has
RECURSIVE FirstFlv(_, _)
FirstFlv(tiers, i) ==
    IF i > Len(Qualities) THEN Null
    ELSE LET quality == Qualities[i] IN
         IF quality \in DOMAIN tiers /\ tiers[quality].main /\ tiers[quality].flv # ""
         THEN tiers[quality].flv
         ELSE FirstFlv(tiers, i + 1)

\* lines 85-86: path.join(dir, `${user}_${timestamp}.${ext}`)
OutputPath(dir, user, timestamp, ext) ==
    [dir |-> dir, user |-> user, timestamp |-> timestamp, ext |-> ext]

VideoPath(job) == OutputPath("recordings", job.user, job.timestamp, "mp4")
AudioPath(job) == OutputPath("audio", job.user, job.timestamp, "wav")

\* How an ffmpeg child ends: 'close' with an exit code, or 'error' (the
\* spawn failed).
ProcOutcomes == {[event |-> "close", code |-> 0], [event |-> "close", code |-> 1],
                 [event |-> "error", code |-> -1]}

\* a plausible slip: any 'close' resolves, whatever the exit code
ExitedWhatever(outcome) == outcome.event = "close"

\* lines 92-99: the promise resolves on 'close' with code 0
ExitedOk(outcome) == outcome.event = "close" /\ outcome.code = 0

\* lines 92, 97: err.message of the rejection
ErrMessage(outcome) ==
    IF outcome.event = "close"
    THEN [text |-> "ffmpeg exited with code", code |-> outcome.code]
    ELSE [text |-> "spawn ffmpeg failed", code |-> outcome.code]

NoDetail == [text |-> "", code |-> 0]

\* the state of a child that was not spawned, and of one that runs
NotSpawned == [event |-> "none", code |-> 0]
Running == [event |-> "running", code |-> 0]

\* a plausible slip: cleaning up the video when the audio stage fails
FilesAfterAudioRollback(files, job, outcome) ==
    IF ExitedOk(outcome) THEN files \cup {AudioPath(job)} ELSE files \ {VideoPath(job)}

\* lines 110-115: the files on disk once the audio ffmpeg has ended; the
\* failure branch only responds
FilesAfterAudio(files, job, outcome) ==
    IF ExitedOk(outcome) THEN files \cup {AudioPath(job)} ELSE files

\* lines 20-47: from the request to the `await fetch(...)`; mkdirFails names
\* the directory whose mkdirSync throws ("none": both succeed)
Record(method, username, mkdirFails) ==
    /\ UNCHANGED <<logVars, statusVars, probe, cacheVars, disk>>
    /\ IF method # "POST"
       THEN /\ lastRes' = Respond("record", username, 0, 405, [error |-> "Method not allowed", detail |-> NoDetail])
            /\ UNCHANGED <<jobs, dirs>>
       ELSE IF InvalidUsername(username)
       THEN /\ lastRes' = Respond("record", username, 0, 400, [error |-> "Missing or invalid username", detail |-> NoDetail])
            /\ UNCHANGED <<jobs, dirs>>
       ELSE IF "recordings" \notin dirs /\ mkdirFails = "recordings"
       THEN \* mkdirSync throws outside the try: the handler rejects, no response
            /\ lastRes' = Respond("record", username, 0, 0, [error |-> "uncaught", detail |-> NoDetail])
            /\ UNCHANGED <<jobs, dirs>>
       ELSE IF "audio" \notin dirs /\ mkdirFails = "audio"
       THEN /\ lastRes' = Respond("record", username, 0, 0, [error |-> "uncaught", detail |-> NoDetail])
            /\ dirs' = dirs \cup {"recordings"}
            /\ UNCHANGED jobs
       ELSE /\ Len(jobs) < MaxCaptures
            /\ dirs' = {"recordings", "audio"}
            /\ jobs' = Append(jobs,
                   [username |-> username, user |-> NormalizeUser(username),
                    pc |-> "fetching", upstream |-> 0, flvUrl |-> Null, timestamp |-> 0,
                    download |-> NotSpawned, audio |-> NotSpawned])
            /\ UNCHANGED lastRes

\* lines 117-119: fetch (or response.text()) rejected
RecordFetchThrows(j) ==
    /\ jobs[j].pc = "fetching"
    /\ jobs' = [jobs EXCEPT ![j].pc = "done"]
    /\ lastRes' = Respond("record", jobs[j].username, j, 500, [error |-> "fetch failed", detail |-> NoDetail])
    /\ UNCHANGED <<logVars, statusVars, probe, cacheVars, dirs, disk>>

\* a plausible slip: a document or manifest that does not parse is reported
\* like one that is not there
ResolveFailureCollapsed(page) ==
    IF page.sigi \in {"absent", "unparseable"} THEN "SIGI_STATE missing"
    ELSE IF page.raw \in {"absent", "unparseable"} THEN "No stream data found"
    ELSE IF ~page.streams.defined THEN "Cannot read properties of undefined"
    ELSE IF FirstFlv(page.streams.tiers, 1) = Null THEN "No FLV stream available"
    ELSE ""

\* lines 49-83 and 117-119: the reason the capture fails with on `page`, ""
\* when the page yields an flv URL
ResolveFailure(page) ==
    IF page.sigi = "absent" THEN "SIGI_STATE missing"
    ELSE IF page.sigi = "unparseable" THEN "Failed to parse SIGI_STATE"
    ELSE IF page.raw = "absent" THEN "No stream data found"
    ELSE IF page.raw = "unparseable" THEN "Failed to parse stream data"
    ELSE IF ~page.streams.defined
         THEN \* streams[quality] throws a TypeError: the outer catch
              "Cannot read properties of undefined"
    ELSE IF FirstFlv(page.streams.tiers, 1) = Null THEN "No FLV stream available"
    ELSE ""

\* lines 48-104: the upstream answered with `page`; the page is parsed, the
\* stream chosen and the download ffmpeg spawned
RecordFetched(j, page) ==
    /\ jobs[j].pc = "fetching"
    /\ LET reason == ResolveFailure(page) IN
       IF reason # ""
       THEN /\ jobs' = [jobs EXCEPT ![j].pc = "done", ![j].upstream = page.status]
            /\ lastRes' = Respond("record", jobs[j].username, j, 500,
                                  [error |-> reason, detail |-> NoDetail])
       ELSE /\ jobs' = [jobs EXCEPT ![j].pc = "downloading", ![j].upstream = page.status,
                                    ![j].flvUrl = FirstFlv(page.streams.tiers, 1),
                                    ![j].timestamp = now, ![j].download = Running]
            /\ UNCHANGED lastRes
    /\ UNCHANGED <<logVars, statusVars, probe, cacheVars, dirs, disk>>

\* DownloadEnded without the `return` of line 107: the failure is answered and
\* the audio ffmpeg is spawned all the same
DownloadEndedFallsThrough(j, outcome) ==
    /\ jobs[j].pc = "downloading"
    /\ IF ExitedOk(outcome)
       THEN /\ disk' = disk \cup {VideoPath(jobs[j])}
            /\ UNCHANGED lastRes
       ELSE /\ lastRes' = Respond("record", jobs[j].username, j, 500,
                                  [error |-> "Download failed", detail |-> ErrMessage(outcome)])
            /\ UNCHANGED disk
    /\ jobs' = [jobs EXCEPT ![j].pc = "extracting", ![j].download = outcome,
                            ![j].audio = Running]
    /\ UNCHANGED <<logVars, statusVars, probe, cacheVars, dirs>>

\* lines 103-111: the download ffmpeg ended; on success the audio ffmpeg is
\* spawned
DownloadEnded(j, outcome) ==
    /\ jobs[j].pc = "downloading"
    /\ IF ExitedOk(outcome)
       THEN /\ disk' = disk \cup {VideoPath(jobs[j])}
            /\ jobs' = [jobs EXCEPT ![j].pc = "extracting", ![j].download = outcome,
                                    ![j].audio = Running]
            /\ UNCHANGED lastRes
       ELSE /\ jobs' = [jobs EXCEPT ![j].pc = "done", ![j].download = outcome]
            /\ lastRes' = Respond("record", jobs[j].username, j, 500,
                                  [error |-> "Download failed", detail |-> ErrMessage(outcome)])
            /\ UNCHANGED disk
    /\ UNCHANGED <<logVars, statusVars, probe, cacheVars, dirs>>

\* lines 110-116: the audio ffmpeg ended
AudioEnded(j, outcome) ==
    /\ jobs[j].pc = "extracting"
    /\ disk' = FilesAfterAudio(disk, jobs[j], outcome)
    /\ IF ExitedOk(outcome)
       THEN lastRes' = Respond("record", jobs[j].username, j, 200,
                   [message |-> "Recording complete", flvUrl |-> jobs[j].flvUrl,
                    videoPath |-> VideoPath(jobs[j]), audioPath |-> AudioPath(jobs[j])])
       ELSE lastRes' = Respond("record", jobs[j].username, j, 500,
                   [error |-> "Audio extraction failed", detail |-> ErrMessage(outcome)])
    /\ jobs' = [jobs EXCEPT ![j].pc = "done", ![j].audio = outcome]
    /\ UNCHANGED <<logVars, statusVars, probe, cacheVars, dirs>>

\* a millisecond passes
Millisecond ==
    /\ now < MaxMillis
    /\ now' = now + 1
    /\ UNCHANGED <<logVars, statusVars, probe, recVars, cache, infoReqs, served, lastRes>>

NextRecord ==
    \/ \E method \in {"GET", "POST"}, username \in RecordUsernames,
          mkdirFails \in (IF dirs = {"recordings", "audio"} THEN {"none"}
                         ELSE {"none", "recordings", "audio"}) : Record(method, username, mkdirFails)
    \/ \E j \in 1..Len(jobs) : RecordFetchThrows(j)
    \/ \E j \in 1..Len(jobs), page \in RecordPages : RecordFetched(j, page)
    \/ \E j \in 1..Len(jobs), outcome \in ProcOutcomes : DownloadEnded(j, outcome)
    \/ \E j \in 1..Len(jobs), outcome \in ProcOutcomes : AudioEnded(j, outcome)
    \/ Millisecond

SpecRecord == Init /\ [][NextRecord]_vars

\* the pending await of job j settles: the upstream fetch answers or rejects
\* (lines 42-48), or the ffmpeg of the current stage ends (lines 93-99)
Completes(j) ==
    /\ j <= Len(jobs)
    /\ \/ RecordFetchThrows(j)
       \/ \E page \in RecordPages : RecordFetched(j, page)
       \/ \E outcome \in ProcOutcomes : DownloadEnded(j, outcome)
       \/ \E outcome \in ProcOutcomes : AudioEnded(j, outcome)

\* the capture handler with the clock standing still
NextCapture ==
    \/ \E method \in {"GET", "POST"}, username \in RecordUsernames,
          mkdirFails \in (IF dirs = {"recordings", "audio"} THEN {"none"}
                         ELSE {"none", "recordings", "audio"}) : Record(method, username, mkdirFails)
    \/ \E j \in 1..MaxCaptures : Completes(j)

\* every fetch and every external process eventually completes
SpecRecordFair ==
    Init /\ [][NextCapture]_vars /\ \A j \in 1..MaxCaptures : WF_vars(Completes(j))

(***************************************************************************)
(* The status query (checkLive), src/unnamed/part_000                      *)
(***************************************************************************)
\* JavaScript values, tagged with their type: 2 and "2" are different values
Num(v) == [t |-> "number", v |-> v]
Str(v) == [t |-> "string", v |-> v]
Undefined == [t |-> "undefined", v |-> ""]
JsNull == [t |-> "null", v |-> ""]

\* The live pages the status query reads. `script` says how the SIGI_STATE
\* script stands in the page: "absent", "empty" (nothing between the tags),
\* "oneline", or "multiline" (its text holds a line terminator); `json`
\* whether that text is valid JSON; `path` whether the document has
\* LiveRoom.liveRoomUserInfo.liveRoom; `status` and `roomId` the members of
\* that object.
StatusPage(script, json, path, status, roomId) ==
    [script |-> script, json |-> json, path |-> path, status |-> status, roomId |-> roomId]

StatusPages ==
    { StatusPage("absent", "unparseable", FALSE, Undefined, Undefined),
      StatusPage("empty", "unparseable", FALSE, Undefined, Undefined),
      StatusPage("oneline", "unparseable", FALSE, Undefined, Undefined),
      StatusPage("oneline", "doc", FALSE, Undefined, Undefined),
      StatusPage("multiline", "doc", TRUE, Num("2"), Str("r")) }
    \cup { StatusPage("oneline", "doc", TRUE, status, roomId) :
              status \in {Num("2"), Num("4"), Str("2"), Undefined},
              roomId \in {Str("r"), Undefined} }

\* lines 30-31: /<script id="SIGI_STATE"[^>]*>(.*?)<\/script>/ matches with a
\* non-empty group; `.` matches no line terminator, so a script whose text
\* spans lines is not matched
Extracted(page) == page.script = "oneline"

\* lines 27-41: the body of the 200 response
CheckLiveBody(user, page) ==
    IF Extracted(page) /\ page.json = "doc"
    THEN LET status == IF page.path THEN page.status ELSE Undefined
             roomId == IF page.path THEN page.roomId ELSE Undefined
         IN  [username |-> user, live |-> (status = Num("2")), status |-> status, roomId |-> roomId]
    ELSE [username |-> user, live |-> FALSE, status |-> JsNull, roomId |-> JsNull]

\* lines 12-25: from the request to the `await fetch(...)`
CheckLive(username) ==
    /\ UNCHANGED <<logVars, cacheVars, recVars, probe>>
    /\ IF InvalidUsername(username)
       THEN /\ lastRes' = Respond("checkLive", username, 0, 400,
                                  [error |-> "Missing or invalid username"])
            /\ UNCHANGED statusReqs
       ELSE /\ Len(statusReqs) < MaxStatusReqs
            /\ statusReqs' = Append(statusReqs,
                   [username |-> username, user |-> NormalizeUser(username)])
            /\ UNCHANGED lastRes

\* lines 42-44: fetch (or response.text()) rejected
StatusFetchThrows(q) ==
    /\ UNCHANGED <<logVars, cacheVars, recVars, probe>>
    /\ statusReqs' = Without(statusReqs, q)
    /\ lastRes' = Respond("checkLive", statusReqs[q].username, 0, 500, [error |-> "fetch failed"])

\* lines 26-41: the upstream answered with `page`
StatusFetched(q, page) ==
    /\ UNCHANGED <<logVars, cacheVars, recVars, probe>>
    /\ statusReqs' = Without(statusReqs, q)
    /\ lastRes' = Respond("checkLive", statusReqs[q].username, 0, 200,
                          CheckLiveBody(statusReqs[q].user, page))

NextStatus ==
    \/ \E username \in Usernames : CheckLive(username)
    \/ \E q \in 1..Len(statusReqs) : StatusFetchThrows(q)
    \/ \E q \in 1..Len(statusReqs), page \in StatusPages : StatusFetched(q, page)

SpecStatus == Init /\ [][NextStatus]_vars

(***************************************************************************)
(* Quality selection on its own, src/pages/api/record.js lines 73-83       *)
(***************************************************************************)
\* The variant table as JSON.parse builds it: its entries in insertion
\* order, every tier at most once.
TierOrders ==
    {o \in UNION {[1..n -> {Qualities[i] : i \in 1..Len(Qualities)}] : n \in 0..Len(Qualities)} :
        \A i, j \in 1..Len(o) : i # j => o[i] # o[j]}

\* a variant without `main`, with an empty flv URL, or with a URL of its own
VariantOf(kind, tier) ==
    IF kind = "nomain" THEN NoMain ELSE IF kind = "empty" THEN Flv("") ELSE Flv(tier)

Manifests ==
    UNION {{[i \in 1..Len(o) |-> [tier |-> o[i], variant |-> VariantOf(kinds[i], o[i])]] :
               kinds \in [1..Len(o) -> {"nomain", "empty", "url"}]} : o \in TierOrders}

\* streams[quality]: the object looked up by key
AsObject(entries) ==
    [q \in {entries[i].tier : i \in 1..Len(entries)} |->
        (CHOOSE e \in {entries[i] : i \in 1..Len(entries)} : e.tier = q).variant]

\* a plausible slip: `for (const quality in streams)` takes the first usable
\* variant in insertion order
RECURSIVE SelectQualityInsertionOrder(_)
SelectQualityInsertionOrder(entries) ==
    IF entries = <<>> THEN Null
    ELSE IF Head(entries).variant.main /\ Head(entries).variant.flv # ""
    THEN Head(entries).variant.flv
    ELSE SelectQualityInsertionOrder(Tail(entries))

\* lines 73-79 on a variant table
SelectQuality(entries) == FirstFlv(AsObject(entries), 1)

Pending == "pending"

InitSelect == Quiet /\ probe \in [manifest : Manifests, result : {Pending}]

Select ==
    /\ probe.result = Pending
    /\ probe' = [probe EXCEPT !.result = SelectQuality(probe.manifest)]
    /\ UNCHANGED <<logVars, statusVars, cacheVars, recVars, lastRes>>

NextSelect == Select

SpecSelect == InitSelect /\ [][NextSelect]_vars

(***************************************************************************)
(* User-info resolution on its own, src/unnamed/part_001 lines 59-89       *)
(***************************************************************************)
ResolveKeys == {<<"a">>, <<"@", "a">>, <<"x">>}

\* the keys of a users table in the order Object.keys yields them
KeyOrders ==
    {o \in UNION {[1..n -> ResolveKeys] : n \in 0..Cardinality(ResolveKeys)} :
        \A i, j \in 1..Len(o) : i # j => o[i] # o[j]}

\* The entry stored under a key: the entry under "a" has id and region, the
\* entry under "@a" has neither id nor country, the entry under "x" has
\* idStr and country; its uniqueId varies.
EntryUnder(key, uniqueId) ==
    IF key = <<"a">> THEN UserEntry(uniqueId, "1", "", "FR", "")
    ELSE IF key = <<"@", "a">> THEN UserEntry(uniqueId, "", "", "", "")
    ELSE UserEntry(uniqueId, "", "3", "", "US")

UserTables ==
    UNION {{[i \in 1..Len(o) |-> [key |-> o[i], val |-> EntryUnder(o[i], ids[i])]] :
               ids \in [1..Len(o) -> {<<"a">>, <<"A">>, <<"b">>}]} : o \in KeyOrders}

ResolvePages ==
    {[sigi |-> "doc", UserModule |-> Table(users), UserPage |-> NoTable] : users \in UserTables}

InitResolve ==
    /\ Quiet
    /\ probe \in [html : ResolvePages, username : {<<"a">>, <<"A">>}, done : {FALSE},
                   result : {[userId |-> Null, country |-> Null]}]

Resolve ==
    /\ ~probe.done
    /\ probe' = [probe EXCEPT !.done = TRUE,
                              !.result = ResolveUserInfo(probe.html, probe.username)]
    /\ UNCHANGED <<logVars, statusVars, cacheVars, recVars, lastRes>>

NextResolve == Resolve

SpecResolve == InitResolve /\ [][NextResolve]_vars

(***************************************************************************)
(* Properties of the log store.                                            *)
(***************************************************************************)
\* the last n elements of a sequence (all of it when it is shorter)
LastN(seq, n) ==
    IF Len(seq) <= n THEN seq ELSE SubSeq(seq, Len(seq) - n + 1, Len(seq))

History(user) == IF Has(appended, user) THEN appended[user] ELSE <<>>

\* the connections with a registered 'chat' listener that write to user's log
Listeners(user) == {c \in 1..Len(conns) : conns[c].listening /\ conns[c].user = user}

\* C1: a log never holds more than the cap, and it is exactly the last
\* min(n, cap) of the n entries appended to it, in append order, whichever
\* listeners appended them.
C1_LogCapFifo ==
    \A user \in DOMAIN commentLogs :
        /\ Len(commentLogs[user]) <= LogCap
        /\ commentLogs[user] = LastN(History(user), LogCap)

\* a log fed by two listeners has evicted an entry
C1_Witness ==
    \E user \in DOMAIN commentLogs :
        /\ Len(History(user)) > LogCap
        /\ Cardinality(Listeners(user)) >= 2

\* The account a raw `username` names: leading "@" stripped, trimmed
\* (whitespace before the "@" included), compared case-insensitively.
Account(username) == ToLowerCase(Trim(StripAt(Trim(username))))

\* C9: requests whose account arguments differ only by a leading "@",
\* surrounding whitespace or letter case address the same log and the same
\* watcher: the key of every listener start equals the key of every accepted
\* read (or start) spelled as the same account.
C9_SameLogForSameAccount ==
    \A c \in 1..Len(conns) : \A username \in Usernames :
        (~InvalidUsername(username) /\ Account(username) = Account(conns[c].username))
            => NormalizeUser(username) = conns[c].user

\* the comments of a sequence of entries
RECURSIVE Comments(_)
Comments(log) == IF log = <<>> THEN {} ELSE {Head(log).comment} \cup Comments(Tail(log))

\* C10: at most one connection with a registered chat listener exists per
\* account, so each chat event is appended to the account's log once.
C10_OneListenerPerAccount ==
    \A user \in DOMAIN commentLogs :
        /\ Cardinality(Listeners(user)) <= 1
        /\ Cardinality(Comments(History(user))) = Len(History(user))

(***************************************************************************)
(* Properties of the user-info cache.                                      *)
(***************************************************************************)
\* C4: at most one upstream fetch is in flight per cache key.
C4_OneFetchPerKey ==
    \A i, j \in 1..Len(infoReqs) : i # j => infoReqs[i].key # infoReqs[j].key

\* the fields of a stored value are those of the response body
SameData(body, data) ==
    /\ body.username = data.username
    /\ body.userId = data.userId
    /\ body.country = data.country
    /\ body.source = data.source

\* C5: a request at time `now` for a key whose entry was written at ts is
\* served the stored value, with no upstream fetch, when now - ts < TTL, and
\* goes to the upstream when there is no entry or now - ts >= TTL (the
\* boundary included); an entry is never removed, and it changes only by
\* being overwritten with a result stamped with the time of the write.
C5_FreshServedStaleRefetched ==
    [][ /\ \A query \in Usernames :
              (UserInfo("GET", query) /\ StripAt(Trim(query)) # <<>>) =>
                  LET key == ToLowerCase(StripAt(Trim(query))) IN
                  IF key \in DOMAIN cache /\ now - cache[key].ts < TTL_MS
                  THEN /\ lastRes'.status = 200
                       /\ lastRes'.body.cached
                       /\ SameData(lastRes'.body, cache[key].data)
                       /\ infoReqs' = infoReqs
                       /\ cache' = cache
                  ELSE /\ Len(infoReqs') = Len(infoReqs) + 1
                       /\ infoReqs'[Len(infoReqs')].key = key
                       /\ lastRes' = lastRes
                       /\ cache' = cache
        /\ DOMAIN cache \subseteq DOMAIN cache'
        /\ \A key \in DOMAIN cache :
              cache'[key] # cache[key] =>
                  /\ cache'[key].ts = now
                  /\ lastRes'.status = 200
                  /\ SameData(lastRes'.body, cache'[key].data)
      ]_vars

\* an entry exactly one TTL old is being refetched after it was served from
\* the cache
C5_Witness ==
    \E q \in 1..Len(infoReqs) :
        /\ infoReqs[q].key \in DOMAIN cache
        /\ now - cache[infoReqs[q].key].ts = TTL_MS
        /\ lastRes.route = "userInfo"
        /\ lastRes.status = 200
        /\ "cached" \in DOMAIN lastRes.body
        /\ SameData(lastRes.body, cache[infoReqs[q].key].data)

\* C8: inputs that differ only by a leading "@", surrounding whitespace and
\* letter case map to one cache key, and every 200 response for that key
\* (from a fetch or from the cache) carries the same `username` field.
C8_SameKeyAndUsername ==
    /\ \A q \in 1..Len(infoReqs) : infoReqs[q].key = Account(infoReqs[q].username)
    /\ \A key \in DOMAIN served : Cardinality(served[key]) <= 1

(***************************************************************************)
(* Properties of the capture pipeline.                                     *)
(***************************************************************************)
ProcEnded(proc) == proc.event \in {"close", "error"}

ProcFailed(proc) == ProcEnded(proc) /\ ~(proc.event = "close" /\ proc.code = 0)

\* the response just sent answers job j
Answers(j) == lastRes.route = "record" /\ lastRes.job = j

\* C2: the audio ffmpeg is started only after the download ffmpeg exited
\* with code 0; when the download exits non-zero or fails to spawn, the
\* capture ends with "Download failed" and the exit detail, no audio ffmpeg
\* is started and the response has no audio path.
C2_AudioOnlyAfterDownloadOk ==
    \A j \in 1..Len(jobs) :
        /\ jobs[j].audio # NotSpawned => jobs[j].download = [event |-> "close", code |-> 0]
        /\ ProcFailed(jobs[j].download) =>
              /\ jobs[j].pc = "done"
              /\ jobs[j].audio = NotSpawned
              /\ Answers(j) =>
                    /\ lastRes.status = 500
                    /\ lastRes.body.error = "Download failed"
                    /\ lastRes.body.detail.code = jobs[j].download.code
                    /\ lastRes.body.detail.text # ""
                    /\ "audioPath" \notin DOMAIN lastRes.body

\* a capture was just answered after its download exited with code 1
C2_Witness ==
    \E j \in 1..Len(jobs) :
        /\ jobs[j].download = [event |-> "close", code |-> 1]
        /\ Answers(j)

\* C3: when the download succeeded and the audio extraction fails, the
\* response reports the audio-extraction failure (and no audio path), the
\* video file of the job is on disk, and no step ever removes a video file.
C3_VideoKeptOnAudioFailure ==
    /\ [](\A j \in 1..Len(jobs) :
            ProcFailed(jobs[j].audio) =>
                /\ jobs[j].pc = "done"
                /\ VideoPath(jobs[j]) \in disk
                /\ Answers(j) =>
                      /\ lastRes.status = 500
                      /\ lastRes.body.error = "Audio extraction failed"
                      /\ lastRes.body.detail.code = jobs[j].audio.code
                      /\ "audioPath" \notin DOMAIN lastRes.body)
    /\ [][\A file \in disk : file.dir = "recordings" => file \in disk']_vars

\* a capture was just answered after its audio extraction failed, its video
\* on disk and no audio file with it
C3_Witness ==
    \E j \in 1..Len(jobs) :
        /\ ProcFailed(jobs[j].audio)
        /\ Answers(j)
        /\ VideoPath(jobs[j]) \in disk
        /\ AudioPath(jobs[j]) \notin disk

\* C6: a capture whose upstream response is not 2xx ends with the
\* upstream-fetch-failed reason carrying the upstream status, not with a
\* resolving-stage reason, and spawns no process.
C6_NonSuccessIsFetchFailure ==
    \A j \in 1..Len(jobs) :
        (jobs[j].upstream # 0 /\ ~(jobs[j].upstream \in 200..299)) =>
            /\ jobs[j].download = NotSpawned
            /\ Answers(j) =>
                  /\ lastRes.body.error = "upstream fetch failed"
                  /\ lastRes.body.detail.code = jobs[j].upstream

\* C7: a request whose account is empty after normalization is rejected: no
\* capture, listener or user-info fetch is ever started for the empty
\* account, and no log exists for it.
C7_EmptyAccountRejected ==
    /\ \A j \in 1..Len(jobs) : Account(jobs[j].username) # <<>>
    /\ \A c \in 1..Len(conns) : Account(conns[c].username) # <<>>
    /\ \A q \in 1..Len(infoReqs) : Account(infoReqs[q].username) # <<>>
    /\ \A user \in DOMAIN commentLogs : Account(user) # <<>>

\* a job has its timestamp (line 84) once the download ffmpeg was spawned
Stamped(j) == jobs[j].download # NotSpawned

\* C11: two capture jobs for the same account never use the same video path
\* or the same audio path.
C11_DistinctOutputPaths ==
    \A i, j \in 1..Len(jobs) :
        (i # j /\ Stamped(i) /\ Stamped(j) /\ jobs[i].user # <<>> /\ jobs[i].user = jobs[j].user)
            => /\ VideoPath(jobs[i]) # VideoPath(jobs[j])
               /\ AudioPath(jobs[i]) # AudioPath(jobs[j])

\* C12: a capture moves fetching -> downloading -> extracting (resolving and
\* quality selection run inside the step that ends fetching) or from any stage
\* to done; a done job never changes; the step that ends a job, and no other,
\* answers its caller; and, every fetch and process completing, every capture
\* that begins is eventually done.
C12_StagesAndTermination ==
    /\ [][\A j \in 1..Len(jobs) :
            LET a == jobs[j].pc
                b == jobs'[j].pc
                answered == lastRes' # lastRes /\ (Answers(j))'
            IN  /\ a = "done" => jobs'[j] = jobs[j]
                /\ b # a => \/ b = "done"
                            \/ <<a, b>> \in {<<"fetching", "downloading">>,
                                             <<"downloading", "extracting">>}
                /\ answered <=> (a # "done" /\ b = "done")]_vars
    /\ \A j \in 1..MaxCaptures :
            (Len(jobs) >= j) ~> (Len(jobs) >= j /\ jobs[j].pc = "done")

\* one capture ended Done after every stage, another ended Failed
C12_Witness ==
    \E i, j \in 1..Len(jobs) :
        /\ jobs[i].pc = "done" /\ ProcEnded(jobs[i].audio) /\ ExitedOk(jobs[i].audio)
        /\ jobs[j].pc = "done" /\ jobs[j].download = NotSpawned
        /\ Answers(j) /\ lastRes.status = 500

\* C13: a log that exists stays, and each step either leaves it as it is or
\* appends one entry to it, dropping the oldest entry beyond the cap; no start
\* request, failed connect or log read empties it or takes entries out.
C13_LogNeverReset ==
    [][\A user \in DOMAIN commentLogs :
          /\ user \in DOMAIN commentLogs'
          /\ LET old == commentLogs[user]
                 new == commentLogs'[user]
             IN  \/ new = old
                 \/ /\ new # <<>>
                    /\ new = LastN(Append(old, new[Len(new)]), LogCap)]_vars

\* a log holds entries after one start for it failed at connect and a
\* repeated start was answered "Listener already running"
C13_Witness ==
    \E user \in DOMAIN commentLogs :
        /\ commentLogs[user] # <<>>
        /\ \E c \in 1..Len(conns) : conns[c].user = user /\ conns[c].state = "failed"
        /\ lastRes.route = "startComments"
        /\ lastRes.body = [message |-> "Listener already running"]
        /\ NormalizeUser(lastRes.username) = user

\* the last capture request got past validation and ended while an output
\* directory is still missing: its mkdirSync (line 37) threw
MkdirFailed ==
    /\ lastRes.route = "record"
    /\ lastRes.status \notin {400, 405}
    /\ dirs # {"recordings", "audio"}

\* C14: when creating an output directory fails, no capture job was started
\* and the handler answers 500 with a reason, as on its other failure paths.
C14_MkdirFailureReported ==
    MkdirFailed =>
        /\ jobs = <<>>
        /\ lastRes.status = 500
        /\ lastRes.body.error # "uncaught"

\* the manifest string of the page parses and no tier has a non-empty flv
\* URL, the variant table being absent, empty or without a usable variant
NoUsableVariant(page) ==
    /\ page.sigi = "doc"
    /\ page.raw = "json"
    /\ ~page.streams.defined \/ FirstFlv(page.streams.tiers, 1) = Null

\* C15: a capture whose manifest parses but has no usable variant ends with
\* the reason "No FLV stream available" and no ffmpeg is spawned.
C15_NoVariantReason ==
    [][\A j \in 1..Len(jobs), page \in RecordPages :
          (NoUsableVariant(page) /\ RecordFetched(j, page)) =>
              /\ jobs'[j].pc = "done"
              /\ jobs'[j].download = NotSpawned
              /\ lastRes'.status = 500
              /\ lastRes'.body.error = "No FLV stream available"]_vars

\* the SIGI_STATE script of the page holds a document that parses
DocParses(page) == page.script \in {"oneline", "multiline"} /\ page.json = "doc"

\* the status code of that document, Undefined when a path element is absent
ResolvedStatus(page) == IF page.path THEN page.status ELSE Undefined

\* C16: the status query answers 200 with live = true exactly when the
\* embedded document parses and its status is the number 2, and with status
\* and roomId null when there is no document that parses.
C16_LiveIffStatusTwo ==
    [][\A q \in 1..Len(statusReqs), page \in StatusPages :
          StatusFetched(q, page) =>
              /\ lastRes'.status = 200
              /\ lastRes'.body.live <=> (DocParses(page) /\ ResolvedStatus(page) = Num("2"))
              /\ ~DocParses(page) =>
                     lastRes'.body.status = JsNull /\ lastRes'.body.roomId = JsNull]_vars

\* the ranks, in the order uhd, hd, sd, ld, of the tiers of a variant table
\* whose variant has a non-empty flv URL
UsableRanks(entries) ==
    {r \in 1..Len(Qualities) :
        \E k \in 1..Len(entries) :
            /\ entries[k].tier = Qualities[r]
            /\ entries[k].variant.main
            /\ entries[k].variant.flv # ""}

\* the flv URL of the usable tier of least rank, Null when no tier is usable
BestFlv(entries) ==
    IF UsableRanks(entries) = {} THEN Null
    ELSE LET r == CHOOSE x \in UsableRanks(entries) : \A y \in UsableRanks(entries) : x <= y
             k == CHOOSE i \in 1..Len(entries) : entries[i].tier = Qualities[r]
         IN  entries[k].variant.flv

SameEntries(m1, m2) ==
    {m1[i] : i \in 1..Len(m1)} = {m2[i] : i \in 1..Len(m2)}

\* C17: quality selection returns the URL of the first tier in the order
\* uhd, hd, sd, ld that has a non-empty flv URL, skipping tiers that are
\* absent or have no URL, and nothing when no tier has one; every insertion
\* order of the same entries gives the same result.
C17_FirstUsableTier ==
    probe.result # Pending =>
        /\ probe.result = BestFlv(probe.manifest)
        /\ \A m \in Manifests :
               SameEntries(m, probe.manifest) => SelectQuality(m) = probe.result

\* sd was selected from a table that lists ld first and whose uhd and hd
\* variants have no URL
C17_Witness ==
    /\ probe.manifest = <<[tier |-> "ld", variant |-> Flv("ld")],
                          [tier |-> "uhd", variant |-> Flv("")],
                          [tier |-> "hd", variant |-> NoMain],
                          [tier |-> "sd", variant |-> Flv("sd")]>>
    /\ probe.result = "sd"

\* the state document, or the manifest string inside it, does not parse
ParseFailure(page) ==
    page.sigi = "unparseable" \/ (page.sigi = "doc" /\ page.raw = "unparseable")

\* the page has no state document, or its document has no stream data
NotLive(page) ==
    page.sigi = "absent" \/ (page.sigi = "doc" /\ page.raw = "absent")

ParseReasons == {"Failed to parse SIGI_STATE", "Failed to parse stream data"}

ProbedUsers == probe.html.UserModule.users

\* the entries each strategy finds: by the exact key, by the @-prefixed
\* key, and by a uniqueId that equals the account case-insensitively
ByExactKey == {i \in 1..Len(ProbedUsers) : ProbedUsers[i].key = probe.username}

ByPrefixedKey == {i \in 1..Len(ProbedUsers) : ProbedUsers[i].key = <<"@">> \o probe.username}

ByUniqueId ==
    {i \in 1..Len(ProbedUsers) :
        ToLowerCase(ProbedUsers[i].val.uniqueId) = ToLowerCase(probe.username)}

\* the entries of the first strategy that finds any; of the scan, its first
StrategyEntries ==
    IF ByExactKey # {} THEN ByExactKey
    ELSE IF ByPrefixedKey # {} THEN ByPrefixedKey
    ELSE {i \in ByUniqueId : \A j \in ByUniqueId : i <= j}

\* C19: the entry under the exact account name, else the entry under the
\* @-prefixed name, else the first entry whose uniqueId equals the account
\* case-insensitively gives userId (id, else idStr) and region (region, else
\* country); an entry found by an earlier strategy decides even when a later
\* strategy would find another, and when none finds one both are null.
C19_StrategyOrder ==
    probe.done =>
        IF StrategyEntries = {}
        THEN probe.result = [userId |-> Null, country |-> Null]
        ELSE \A i \in StrategyEntries :
                LET u == ProbedUsers[i].val IN
                /\ probe.result.userId = OrElse(OrElse(u.id, u.idStr), Null)
                /\ probe.result.country = OrElse(OrElse(u.region, u.country), Null)

\* the entry under the exact key decided although an entry listed before it
\* has the matching uniqueId
C19_Witness ==
    /\ probe.done
    /\ probe.username = <<"a">>
    /\ ProbedUsers = <<[key |-> <<"x">>, val |-> EntryUnder(<<"x">>, <<"A">>)],
                       [key |-> <<"a">>, val |-> EntryUnder(<<"a">>, <<"b">>)]>>
    /\ probe.result = [userId |-> "1", country |-> "FR"]

\* C20: a user-info request whose upstream fetch throws or answers with a
\* non-success status leaves the cache as it was, entries and timestamps; no
\* cached entry holds an error result and no response served from the cache
\* is one.
C20_ErrorsLeaveCache ==
    /\ [](/\ \A key \in DOMAIN cache : "error" \notin DOMAIN cache[key].data
          /\ (lastRes.route = "userInfo" /\ "cached" \in DOMAIN lastRes.body) =>
                 (lastRes.status = 200 /\ "error" \notin DOMAIN lastRes.body))
    /\ [][\A q \in 1..Len(infoReqs) :
            (InfoFetchThrows(q) \/ \E status \in {404} : InfoFetchNotOk(q, status)) =>
                cache' = cache]_vars

\* a request for a key whose entry is stale was just answered with the
\* upstream's 404, and the stale entry is still there
C20_Witness ==
    /\ lastRes.route = "userInfo"
    /\ lastRes.status = 404
    /\ Has(cache, CacheKey(lastRes.username))
    /\ ~Fresh(cache[CacheKey(lastRes.username)].ts, now)

====
